---- MODULE Spec2Model ----
(***************************************************************************)
(* Model of the archiver of lolmarkov (src/dscrape.py): MyClient, its      *)
(* background commit_task, the paginated message scan of                   *)
(* message_tuple_generator and the inserts of on_ready, run as a sequence  *)
(* of processes over one persisted SQLite store and one remote guild.      *)
(*                                                                         *)
(* Atomic steps are the synchronous segments of the cooperative event      *)
(* loop: a segment ends where the main coroutine awaits a page of          *)
(* channel.history().  Every yielded message is allowed to be the first of *)
(* a page, so the commit task (and a process kill) can be scheduled before *)
(* any message of a scan.                                                  *)
(***************************************************************************)
EXTENDS Naturals, Integers, Sequences, FiniteSets, Bags, TLC

VARIABLES
    remote,      \* the guild as the credential sees it (unchanged during a behaviour)
    disk,        \* committed content of discord_archive.sqlite3
    db,          \* content as seen through self._conn (committed + pending writes)
    pc,          \* position of the process / of the on_ready coroutine
    started,     \* self._started
    task,        \* state of self.task (commit_task)
    last_count,  \* commit_task's local last_count
    update,      \* self.update
    users,       \* on_ready's local set of known user ids
    ci,          \* index in get_all_channels() of the channel being scanned
    pending,     \* messages of the current history() request not yet yielded
    requests,    \* log of the watermark queries / history requests of this process
    error,       \* an exception reached on_ready's except clause
    readyCalls,  \* number of on_ready invocations in this process
    runs,        \* number of archiver processes started so far
    start,       \* committed store at the start of this process
    prev,        \* outcome of the previous process
    stmts,       \* statements executed by on_ready's message loop in this process
    prog,        \* which program the process runs: "archiver" or "bot"
    config,      \* the parsed configuration file
    exitmsg,     \* message of the exit() that ended main(), NoMsg otherwise
    opened,      \* the archiver has opened (created) the store
    now,         \* wall clock of the bot's host
    archive,     \* the messages table as the bot reads it, per author
    artifact,    \* the files models/<author>.json
    call,        \* the create_model invocation in progress (locals, position, effects)
    gs,          \* the get_sentence invocation in progress
    cog,         \* MarkovCog's self._model and self._model_attrib
    slots        \* the talk and switch commands in flight, with their outcomes

mainVars == <<prog, config, exitmsg, opened>>
cacheVars == <<now, archive, artifact, call>>
sentenceVars == <<gs>>
botVars == <<cog, slots>>
archiverVars == <<remote, disk, db, pc, started, task, last_count, update, users, ci,
                  pending, requests, error, readyCalls, runs, start, prev, stmts>>

vars == <<archiverVars, mainVars, cacheVars, sentenceVars, botVars>>

(***************************************************************************)
(* Bounds                                                                  *)
(***************************************************************************)
MaxRuns == 3
MaxReady == 2

None == 0   \* Python None / SQL NULL for ids (real ids are positive)

(***************************************************************************)
(* The remote guild                                                        *)
(***************************************************************************)
Alice == [id |-> 1, name |-> "alice", display_name |-> "Alice", discriminator |-> "0001"]
Bob   == [id |-> 2, name |-> "bob",   display_name |-> "Bob",   discriminator |-> "0002"]

Chan(i, ty, r, h) == [id |-> i, type |-> ty, read_messages |-> r, read_message_history |-> h]
Msg(i, a, c, ms)  == [id |-> i, author |-> a, channel |-> c, mentions |-> ms]

\* One text channel, three messages from two users, Bob is no longer a member.
GuildSmall ==
    [channels |-> << Chan(10, "text", TRUE, TRUE) >>,
     members  |-> {Alice},
     messages |-> {Msg(1, Alice, 10, {}), Msg(2, Bob, 10, {Alice}), Msg(3, Alice, 10, {Bob})}]

\* Channels without history access, without read access, a voice channel, and
\* one archivable text channel behind them.
GuildMixed ==
    [channels |-> << Chan(20, "text", TRUE, FALSE), Chan(21, "voice", TRUE, TRUE),
                     Chan(22, "text", TRUE, TRUE),  Chan(23, "text", FALSE, TRUE) >>,
     members  |-> {Alice},
     messages |-> {Msg(2, Bob, 22, {Alice}), Msg(3, Alice, 22, {}),
                   Msg(4, Alice, 20, {}), Msg(5, Bob, 23, {})}]

\* One text channel whose two messages are both from Bob, who has left.
GuildLeft ==
    [channels |-> << Chan(30, "text", TRUE, TRUE) >>,
     members  |-> {Alice},
     messages |-> {Msg(6, Bob, 30, {}), Msg(7, Bob, 30, {})}]

Guilds == {GuildSmall, GuildMixed, GuildLeft}

(***************************************************************************)
(* Tuples built from the remote objects                                    *)
(***************************************************************************)
\* message.created_at is derived from the id (a snowflake: the creation time in
\* milliseconds followed by low-order sequence bits), so ids created in the same
\* millisecond share their timestamp.  The low-order part is one bit here.
SnowflakeBits == 2
created_at(id) == id \div SnowflakeBits

UserTuple(u) == << u.id, u.name, u.display_name, u.discriminator >>
ChannelTuple(c) == << c.id, "name" >>
MessageTuple(m) ==
    << m.id, created_at(m.id), m.author.id, m.author.name, m.channel, "content", "clean" >>
MentionTuples(m) == { << m.id, m.author.id, u.id >> : u \in m.mentions }

(***************************************************************************)
(* The store                                                               *)
(***************************************************************************)
EmptyStore == [users |-> {}, channels |-> {}, messages |-> {}, mentions |-> EmptyBag]

\* INSERT OR IGNORE on a table whose first column is the primary key
InsertOrIgnore(table, row) ==
    IF \E r \in table : r[1] = row[1] THEN table ELSE table \cup {row}

\* INSERT INTO mentions: the table has no key, every insert adds a row
InsertMentions(bag, rows) == bag (+) SetToBag(rows)

\* (INSERT OR REPLACE instead: the conflicting stored rows are replaced)
InsertAllOrReplace(table, rows) ==
    { r \in table : \A t \in rows : r[1] # t[1] } \cup rows

\* a run of INSERT OR IGNORE over tuples with pairwise distinct keys
InsertAllOrIgnore(table, rows) ==
    table \cup { t \in rows : \A r \in table : r[1] # t[1] }

ChannelRows(d, c) == { r \in d.messages : r[5] = c }
MessageIds(d) == { r[1] : r \in d.messages }

(***************************************************************************)
(* Channel enumeration and permissions                                     *)
(***************************************************************************)
IsTextChannelAnyKind(c) == TRUE
IsTextChannel(c) == c.type = "text"

\* channel_tuple_generator
channel_tuple_generator(g) ==
    { ChannelTuple(g.channels[i]) : i \in { k \in 1..Len(g.channels) : IsTextChannel(g.channels[k]) } }

\* user_tuple_generator
user_tuple_generator(g) == { UserTuple(u) : u \in g.members }

archive_permission_read_only(c) == c.read_messages
archive_permission(c) == c.read_messages /\ c.read_message_history

\* Index of the first channel at or after position i that message_tuple_generator
\* scans (has archive permission and is a text channel); 0 when there is none.
NextArchivable(g, i) ==
    LET ok == { k \in i..Len(g.channels) :
                  archive_permission(g.channels[k]) /\ IsTextChannel(g.channels[k]) }
    IN IF ok = {} THEN 0 ELSE CHOOSE k \in ok : \A j \in ok : k <= j

(***************************************************************************)
(* Watermark query and history request                                     *)
(***************************************************************************)
\* (any row of the channel, whatever its timestamp)
ExtremeRowsAny(rows, upd) == rows

\* Rows of a channel carrying the maximum (update) or minimum timestamp
ExtremeRows(rows, upd) ==
    { r \in rows : \A q \in rows : IF upd THEN q[2] <= r[2] ELSE q[2] >= r[2] }

\* SELECT message_id, max(timestamp) / min(timestamp) ... WHERE channel_id = ?
\* message_id is a bare column of an aggregate query: it is taken from one of
\* the rows that carry the extreme timestamp; which one is not specified when
\* several rows share it.  No row at all gives NULL.
WatermarkIds(d, c, upd) ==
    IF ChannelRows(d, c) = {} THEN {None}
    ELSE { r[1] : r \in ExtremeRows(ChannelRows(d, c), upd) }

RECURSIVE SortAsc(_)
SortAsc(S) ==
    IF S = {} THEN << >>
    ELSE LET m == CHOOSE x \in S : \A y \in S : x.id <= y.id
         IN << m >> \o SortAsc(S \ {m})

Reverse(s) == [ i \in 1..Len(s) |-> s[Len(s) + 1 - i] ]

\* (newest first whatever the cursors)
HistoryNewestFirst(g, c, before, after) ==
    LET S == { m \in g.messages : /\ m.channel = c
                                  /\ (before = None \/ m.id < before)
                                  /\ (after = None \/ m.id > after) }
    IN Reverse(SortAsc(S))

\* channel.history(before=, after=, limit=None): every message of the channel
\* with id < before and id > after; oldest first when an after cursor is
\* given, newest first otherwise.
History(g, c, before, after) ==
    LET S == { m \in g.messages : /\ m.channel = c
                                  /\ (before = None \/ m.id < before)
                                  /\ (after = None \/ m.id > after) }
    IN IF after # None THEN SortAsc(S) ELSE Reverse(SortAsc(S))

Ids(s) == [ i \in 1..Len(s) |-> s[i].id ]

(***************************************************************************)
(* on_ready: inserts for one yielded tuple                                 *)
(***************************************************************************)
NeedsUserInsertNever(known, uid) == FALSE
NeedsUserInsertAlways(known, uid) == TRUE
NeedsUserInsert(known, uid) == uid \notin known

InsertYielded(d, known, m) ==
    LET d1 == IF NeedsUserInsert(known, m.author.id)
              THEN [d EXCEPT !.users = InsertOrIgnore(@, UserTuple(m.author))]
              ELSE d
        d2 == [d1 EXCEPT !.messages = InsertOrIgnore(@, MessageTuple(m))]
    IN [d2 EXCEPT !.mentions = InsertMentions(@, MentionTuples(m))]

RECURSIVE MentionStatements(_, _)
MentionStatements(mid, uids) ==
    IF uids = {} THEN << >>
    ELSE LET u == CHOOSE x \in uids : \A y \in uids : x <= y
         IN << << "mentions", mid, u >> >> \o MentionStatements(mid, uids \ {u})

\* The statements on_ready's loop body executes for one yielded tuple, in order
YieldedStatements(known, m) ==
    (IF NeedsUserInsert(known, m.author.id) THEN << << "users", m.author.id >> >> ELSE << >>)
    \o << << "messages", m.id >> >>
    \o MentionStatements(m.id, { u.id : u \in m.mentions })

\* finally: self.task.cancel(); await self.logout()
Shutdown ==
    /\ task' = "cancelled"
    /\ pc' = "closed"

\* message_tuple_generator resumed at channel position i with connection
\* content d and committed content 'committed': skip to the next archivable channel, query its watermark and
\* issue its history request; with no channel left, on_ready commits and
\* shuts down.
Scan(i, d, committed) ==
    LET j == NextArchivable(remote, i) IN
    IF j = 0
    THEN /\ db' = d
         /\ disk' = d
         /\ Shutdown
         /\ ci' = Len(remote.channels) + 1
         /\ pending' = << >>
         /\ UNCHANGED requests
    ELSE \E w \in WatermarkIds(d, remote.channels[j].id, update) :
           LET c == remote.channels[j].id
               before == IF update THEN None ELSE w
               after == IF update THEN w ELSE None
               h == History(remote, c, before, after)
           IN /\ db' = d
              /\ disk' = committed
              /\ UNCHANGED task
              /\ pc' = "history"
              /\ ci' = j
              /\ pending' = h
              /\ requests' = Append(requests,
                                [channel |-> c, before |-> before, after |-> after,
                                 stored |-> { r[1] : r \in ChannelRows(d, c) },
                                 result |-> Ids(h)])

(***************************************************************************)
(* Actions                                                                 *)
(***************************************************************************)
(***************************************************************************)
(* Configuration (util.try_config and the two main functions)              *)
(***************************************************************************)
NoMsg == << >>

\* A parsed configuration: its section names and its (section, key, value) entries
Cfg(secs, ents) == [sections |-> secs, entries |-> ents]
FullConfig == Cfg({"MAIN"}, { << "MAIN", "Token", "token" >> })
Configs ==
    { FullConfig,
      Cfg({}, {}),                                              \* no file / empty file
      Cfg({"OTHER"}, { << "OTHER", "Token", "token" >> }),      \* Token under another section
      Cfg({"MAIN"}, { << "MAIN", "DebugGuildId", "1" >> }) }    \* [MAIN] without Token

HasKey(c, heading, key) == \E e \in c.entries : e[1] = heading /\ e[2] = key

\* (a missing key yields an empty value instead of exiting)
try_config_default(c, heading, key) ==
    IF heading \notin c.sections
    THEN [exit |-> TRUE, msg |-> << "Missing config section", heading >>, value |-> ""]
    ELSE IF ~HasKey(c, heading, key)
    THEN [exit |-> FALSE, msg |-> NoMsg, value |-> ""]
    ELSE [exit |-> FALSE, msg |-> NoMsg,
          value |-> (CHOOSE e \in c.entries : e[1] = heading /\ e[2] = key)[3]]

\* util.try_config: the value of config[heading][key], or exit(message)
try_config(c, heading, key) ==
    IF heading \notin c.sections
    THEN [exit |-> TRUE, msg |-> << "Missing config section", heading >>, value |-> ""]
    ELSE IF ~HasKey(c, heading, key)
    THEN [exit |-> TRUE, msg |-> << "Missing config key", key, heading >>, value |-> ""]
    ELSE [exit |-> FALSE, msg |-> NoMsg,
          value |-> (CHOOSE e \in c.entries : e[1] = heading /\ e[2] = key)[3]]

\* The state of the process variables once main() has read a complete
\* configuration and constructed the archiver's client.
MainDone ==
    /\ prog = "archiver"
    /\ config = FullConfig
    /\ exitmsg = NoMsg
    /\ opened = TRUE

(***************************************************************************)
(* Model cache (MarkovCog.create_model) and get_sentence: idle states      *)
(***************************************************************************)
NoCall == [pc |-> "idle"]
CacheIdle ==
    /\ now = 0
    /\ archive = << >>
    /\ artifact = << >>
    /\ call = NoCall

SentenceIdle == gs = [pc |-> "idle"]

\* MarkovCog.__init__: no model, no attribution; no command has been received
NoActive == [author |-> None, model |-> [kind |-> "none", corpus |-> 0]]
NoAttrib == << >>
BotIdle ==
    /\ cog = [model |-> NoActive, attrib |-> NoAttrib]
    /\ slots = << >>

Init ==
    /\ remote \in Guilds
    /\ disk = EmptyStore
    /\ db = EmptyStore
    /\ pc = "constructed"
    /\ started = FALSE
    /\ task = "waiting"
    /\ last_count = 0
    /\ update \in BOOLEAN
    /\ users = {}
    /\ ci = 0
    /\ pending = << >>
    /\ requests = << >>
    /\ error = FALSE
    /\ readyCalls = 0
    /\ runs = 1
    /\ start = EmptyStore
    /\ prev = [status |-> "none", update |-> FALSE, start |-> EmptyStore, end |-> EmptyStore]
    /\ stmts = << >>
    /\ MainDone
    /\ CacheIdle
    /\ SentenceIdle
    /\ BotIdle

\* client.run(token): the gateway reports ready
Connect ==
    /\ pc = "constructed"
    /\ pc' = "connected"
    /\ UNCHANGED <<remote, disk, db, started, task, last_count, update, users, ci,
                   pending, requests, error, readyCalls, runs, start, prev>>
    /\ UNCHANGED <<stmts, mainVars, cacheVars, sentenceVars, botVars>>

\* commit_task up to its loop: wait_until_ready returned, last_count is read
CommitTaskStart ==
    /\ pc \in {"connected", "history"}
    /\ task = "waiting"
    /\ task' = "running"
    /\ last_count' = Cardinality(db.messages)
    /\ UNCHANGED <<remote, disk, db, pc, started, update, users, ci, pending,
                   requests, error, readyCalls, runs, start, prev>>
    /\ UNCHANGED <<stmts, mainVars, cacheVars, sentenceVars, botVars>>

\* one round of commit_task's loop
CommitTick ==
    /\ pc \in {"connected", "history"}
    /\ task = "running"
    /\ disk' = db
    /\ last_count' = Cardinality(db.messages)
    /\ UNCHANGED <<remote, db, pc, started, task, update, users, ci, pending,
                   requests, error, readyCalls, runs, start, prev>>
    /\ UNCHANGED <<stmts, mainVars, cacheVars, sentenceVars, botVars>>

AlreadyStartedNever == FALSE
AlreadyStarted == started

\* on_ready, from its entry to its first await on a history page
OnReady ==
    /\ pc \in {"connected", "history"}
    /\ readyCalls < MaxReady
    /\ readyCalls' = readyCalls + 1
    /\ UNCHANGED <<stmts, mainVars, cacheVars, sentenceVars, botVars>>
    /\ IF AlreadyStarted
       THEN UNCHANGED <<remote, disk, db, pc, started, task, last_count, update, users,
                        ci, pending, requests, error, runs, start, prev>>
       ELSE LET d1 == [db EXCEPT !.channels =
                          InsertAllOrIgnore(@, channel_tuple_generator(remote))]
                d2 == [d1 EXCEPT !.users =
                          InsertAllOrIgnore(@, user_tuple_generator(remote))]
            IN /\ started' = TRUE
               /\ users' = { t[1] : t \in user_tuple_generator(remote) }
               /\ Scan(1, d2, d2)
               /\ UNCHANGED <<remote, last_count, update, error, runs, start, prev>>

\* The awaited history page arrives.  With a message left, on_ready's loop body
\* runs for it; with none left the generator goes on to the next channel.
HistoryPage ==
    /\ pc = "history"
    /\ IF pending # << >>
       THEN /\ db' = InsertYielded(db, users, Head(pending))
            /\ users' = IF NeedsUserInsert(users, Head(pending).author.id)
                        THEN users \cup {Head(pending).author.id} ELSE users
            /\ pending' = Tail(pending)
            /\ stmts' = stmts \o YieldedStatements(users, Head(pending))
            /\ UNCHANGED <<disk, pc, task, ci, requests>>
       ELSE /\ Scan(ci + 1, db, disk)
            /\ UNCHANGED <<users, stmts>>
    /\ UNCHANGED <<remote, started, last_count, update, error, readyCalls, runs,
                   start, prev>>
    /\ UNCHANGED <<mainVars, cacheVars, sentenceVars, botVars>>

\* The awaited history page raises (HTTP error of the source): except prints
\* the exception, finally shuts down.
HistoryFails ==
    /\ pc = "history"
    /\ error' = TRUE
    /\ Shutdown
    /\ UNCHANGED <<remote, disk, db, started, last_count, update, users, ci, pending,
                   requests, readyCalls, runs, start, prev>>
    /\ UNCHANGED <<stmts, mainVars, cacheVars, sentenceVars, botVars>>

\* The process is killed: the open transaction is rolled back.
Kill ==
    /\ pc \in {"constructed", "connected", "history"}
    /\ pc' = "killed"
    /\ db' = disk
    /\ UNCHANGED <<remote, disk, started, task, last_count, update, users, ci, pending,
                   requests, error, readyCalls, runs, start, prev>>
    /\ UNCHANGED <<stmts, mainVars, cacheVars, sentenceVars, botVars>>

Outcome == IF pc = "killed" THEN "killed" ELSE IF error THEN "failed" ELSE "done"

\* main() and MyClient.__init__ of the next archiver process on the same store
NewProcess ==
    /\ pc \in {"closed", "killed"}
    /\ runs < MaxRuns
    /\ runs' = runs + 1
    /\ prev' = [status |-> Outcome, update |-> update, start |-> start, end |-> disk]
    /\ start' = disk
    /\ db' = disk
    /\ pc' = "constructed"
    /\ started' = FALSE
    /\ task' = "waiting"
    /\ last_count' = 0
    /\ update' \in BOOLEAN
    /\ users' = {}
    /\ ci' = 0
    /\ pending' = << >>
    /\ requests' = << >>
    /\ error' = FALSE
    /\ readyCalls' = 0
    /\ stmts' = << >>
    /\ UNCHANGED <<remote, disk>>
    /\ UNCHANGED <<mainVars, cacheVars, sentenceVars, botVars>>

Next ==
    \/ Connect
    \/ CommitTaskStart
    \/ CommitTick
    \/ OnReady
    \/ HistoryPage
    \/ HistoryFails
    \/ Kill
    \/ NewProcess

Spec == Init /\ [][Next]_vars

(***************************************************************************)
(* Processes from the entry of main()                                      *)
(***************************************************************************)
InitMain ==
    /\ remote \in Guilds
    /\ disk = EmptyStore
    /\ db = EmptyStore
    /\ pc = "main"
    /\ started = FALSE
    /\ task = "waiting"
    /\ last_count = 0
    /\ update \in BOOLEAN
    /\ users = {}
    /\ ci = 0
    /\ pending = << >>
    /\ requests = << >>
    /\ error = FALSE
    /\ readyCalls = 0
    /\ runs = 1
    /\ start = EmptyStore
    /\ prev = [status |-> "none", update |-> FALSE, start |-> EmptyStore, end |-> EmptyStore]
    /\ stmts = << >>
    /\ prog \in {"archiver", "bot"}
    /\ config \in Configs
    /\ exitmsg = NoMsg
    /\ opened = FALSE
    /\ CacheIdle
    /\ SentenceIdle
    /\ BotIdle

\* dscrape.main: parse arguments, read the configuration, try_config, then
\* MyClient(args.update), whose __init__ opens the store and applies the schema
MainArchiver ==
    /\ pc = "main" /\ prog = "archiver"
    /\ LET r == try_config(config, "MAIN", "Token") IN
       IF r.exit
       THEN /\ pc' = "exited"
            /\ exitmsg' = r.msg
            /\ UNCHANGED opened
       ELSE /\ pc' = "constructed"
            /\ opened' = TRUE
            /\ UNCHANGED exitmsg
    /\ UNCHANGED <<remote, disk, db, started, task, last_count, update, users, ci,
                   pending, requests, error, readyCalls, runs, start, prev, stmts>>
    /\ UNCHANGED <<prog, config, cacheVars, sentenceVars, botVars>>

\* lolmarkov.main: makedirs("models") (no artifact is touched), read the
\* configuration, try_config, then the Bot, the slash commands and the cog
MainBot ==
    /\ pc = "main" /\ prog = "bot"
    /\ LET r == try_config(config, "MAIN", "Token") IN
       IF r.exit
       THEN /\ pc' = "exited"
            /\ exitmsg' = r.msg
       ELSE /\ pc' = "bot_constructed"
            /\ UNCHANGED exitmsg
    /\ UNCHANGED <<remote, disk, db, started, task, last_count, update, users, ci,
                   pending, requests, error, readyCalls, runs, start, prev, stmts>>
    /\ UNCHANGED <<prog, config, opened, cacheVars, sentenceVars, botVars>>

\* bot.run(token): the bot connects
BotRun ==
    /\ pc = "bot_constructed"
    /\ pc' = "bot_running"
    /\ UNCHANGED <<remote, disk, db, started, task, last_count, update, users, ci,
                   pending, requests, error, readyCalls, runs, start, prev, stmts>>
    /\ UNCHANGED <<mainVars, cacheVars, sentenceVars, botVars>>

NextMain ==
    \/ MainArchiver
    \/ MainBot
    \/ BotRun
    \/ Next

SpecMain == InitMain /\ [][NextMain]_vars

(***************************************************************************)
(* Model cache: MarkovCog.cache_update and MarkovCog.create_model           *)
(*                                                                         *)
(* The bot reads the store through its own read-only connection; of the    *)
(* messages table only the number of rows of an author and their latest    *)
(* timestamp matter to create_model.  The store and the models directory   *)
(* outlive the bot, so a call may find any combination of the two.         *)
(* Message timestamps never exceed the clock that stamps the artifacts.    *)
(***************************************************************************)
MaxTime == 2
MaxCount == 26

MIN_MESSAGES == 25
QUERY_LIMIT == 100000
NoTimestamp == -1   \* SQL NULL of max(timestamp): the author has no row

Authors == {Alice.id}

Min(a, b) == IF a <= b THEN a ELSE b
Max(a, b) == IF a >= b THEN a ELSE b

NoModel == [kind |-> "none", corpus |-> 0]
Model(n) == [kind |-> "model", corpus |-> n]

NoFile == [state |-> "missing", mtime |-> NoTimestamp, corpus |-> 0]
ArtifactStates(t) ==
    {NoFile}
    \cup { [state |-> st, mtime |-> m, corpus |-> IF st = "model" THEN MIN_MESSAGES ELSE 0] :
             st \in {"model", "malformed"}, m \in 0..t }
ArchiveStates(t) ==
    { [count |-> 0, latest |-> NoTimestamp] }
    \cup { [count |-> c, latest |-> l] : c \in {1, MIN_MESSAGES - 1, MIN_MESSAGES}, l \in 0..t }

Idle(c) == c.pc \in {"idle", "returned", "raised"}

\* (the artifact is discarded also when it is exactly as old as the latest message)
StaleOrEqual(latest, mtime) == latest >= mtime
\* (the artifact is never discarded)
StaleNever(latest, mtime) == FALSE
\* cache_update: latest_timestamp[0] > mtime
Stale(latest, mtime) == latest > mtime

InitCache ==
    /\ remote = GuildSmall
    /\ disk = EmptyStore
    /\ db = EmptyStore
    /\ pc = "bot_running"
    /\ started = FALSE
    /\ task = "waiting"
    /\ last_count = 0
    /\ update = FALSE
    /\ users = {}
    /\ ci = 0
    /\ pending = << >>
    /\ requests = << >>
    /\ error = FALSE
    /\ readyCalls = 0
    /\ runs = 1
    /\ start = EmptyStore
    /\ prev = [status |-> "none", update |-> FALSE, start |-> EmptyStore, end |-> EmptyStore]
    /\ stmts = << >>
    /\ prog = "bot"
    /\ config = FullConfig
    /\ exitmsg = NoMsg
    /\ opened = FALSE
    /\ now = 1
    /\ archive \in [Authors -> ArchiveStates(1)]
    /\ artifact \in [Authors -> ArtifactStates(1)]
    /\ call = NoCall
    /\ SentenceIdle
    /\ BotIdle

\* Finished call: create_model returned value v
Returned(c, v) == [c EXCEPT !.pc = "returned", !.result = v, !.touched = FALSE]

\* The except clause of create_model: the corpus query is issued
MissPath(c) == [c EXCEPT !.pc = "select_corpus"]

\* create_model is entered: cache_update reads the artifact's mtime and issues
\* the max(timestamp) query; without artifact getmtime raises
\* FileNotFoundError and the except clause issues the corpus query.
CallStart ==
    /\ pc = "bot_running"
    /\ Idle(call)
    /\ \E a \in Authors :
         LET c0 == [pc |-> "select_max", author |-> a, mtime |-> artifact[a].mtime,
                    latest |-> NoTimestamp, n |-> 0, result |-> NoModel,
                    maxReads |-> 0, corpusReads |-> 0,
                    trained |-> FALSE, wrote |-> FALSE, removed |-> FALSE,
                    pre |-> artifact[a], count0 |-> archive[a].count,
                    follows |-> (/\ call.pc = "returned" /\ call.author = a
                                 /\ call.removed /\ call.wrote /\ ~call.touched),
                    touched |-> FALSE]
         IN call' = IF artifact[a].state = "missing" THEN MissPath(c0) ELSE c0
    /\ UNCHANGED <<now, archive, artifact>>
    /\ UNCHANGED <<archiverVars, mainVars, sentenceVars, botVars>>

\* create_model after a usable cache_update: open and deserialize the artifact
OpenArtifact(c, f) ==
    IF f.state = "missing" THEN MissPath(c)            \* FileNotFoundError
    ELSE IF f.state = "malformed" THEN MissPath(c)     \* JSONDecodeError
    ELSE Returned(c, Model(f.corpus))

\* The max(timestamp) row arrives: the rest of cache_update, then the try
\* block of create_model up to its return or to the corpus query.
MaxReturned ==
    /\ call.pc = "select_max"
    /\ LET a == call.author
           c1 == [call EXCEPT !.latest = archive[a].latest, !.maxReads = @ + 1]
       IN IF archive[a].latest = NoTimestamp
          THEN \* None > mtime raises TypeError, which no except clause catches
               /\ call' = [c1 EXCEPT !.pc = "raised"]
               /\ UNCHANGED artifact
          ELSE IF Stale(archive[a].latest, call.mtime)
          THEN \* os.remove, then open() fails or remove itself fails: FileNotFoundError
               /\ artifact' = [artifact EXCEPT ![a] = NoFile]
               /\ call' = MissPath([c1 EXCEPT !.removed = (artifact[a].state # "missing")])
          ELSE /\ call' = OpenArtifact(c1, artifact[a])
               /\ UNCHANGED artifact
    /\ UNCHANGED <<now, archive>>
    /\ UNCHANGED <<archiverVars, mainVars, sentenceVars, botVars>>

\* The corpus rows arrive: fewer than 25 return None, otherwise the training
\* is handed to the process pool.
CorpusReturned ==
    /\ call.pc = "select_corpus"
    /\ LET a == call.author
           c1 == [call EXCEPT !.n = Min(archive[a].count, QUERY_LIMIT), !.corpusReads = @ + 1]
       IN call' = IF c1.n < MIN_MESSAGES
                  THEN Returned(c1, NoModel)
                  ELSE [c1 EXCEPT !.pc = "training", !.trained = TRUE]
    /\ UNCHANGED <<now, archive, artifact>>
    /\ UNCHANGED <<archiverVars, mainVars, sentenceVars, botVars>>

\* The executor delivers the model: it is written to the artifact and returned
TrainingDone ==
    /\ call.pc = "training"
    /\ artifact' = [artifact EXCEPT ![call.author] =
                       [state |-> "model", mtime |-> now, corpus |-> call.n]]
    /\ call' = Returned([call EXCEPT !.wrote = TRUE], Model(call.n))
    /\ UNCHANGED <<now, archive>>
    /\ UNCHANGED <<archiverVars, mainVars, sentenceVars, botVars>>

\* The archiver commits one more message of the author, created at time t.
\* (touched: the store changed after the call finished; follows: the call
\* started right after a rebuild and the store has not changed since.)
ArchiveGrows ==
    /\ \E a \in Authors, t \in 0..now :
         /\ archive[a].count < MaxCount
         /\ archive' = [archive EXCEPT ![a] = [count |-> @.count + 1,
                                                latest |-> Max(@.latest, t)]]
    /\ call' = IF call.pc \in {"returned", "raised"} THEN [call EXCEPT !.touched = TRUE]
               ELSE IF call.pc # "idle" THEN [call EXCEPT !.follows = FALSE]
               ELSE call
    /\ UNCHANGED <<now, artifact>>
    /\ UNCHANGED <<archiverVars, mainVars, sentenceVars, botVars>>

Tick ==
    /\ now < MaxTime
    /\ now' = now + 1
    /\ UNCHANGED <<archive, artifact, call>>
    /\ UNCHANGED <<archiverVars, mainVars, sentenceVars, botVars>>

NextCache ==
    \/ CallStart
    \/ MaxReturned
    \/ CorpusReturned
    \/ TrainingDone
    \/ ArchiveGrows
    \/ Tick

SpecCache == InitCache /\ [][NextCache]_vars

(***************************************************************************)
(* Sentence generation: MarkovCog.get_sentence                              *)
(*                                                                         *)
(* max_overlap_ratio is a double.  It starts at 0.7 and every addition of  *)
(* 0.1 lands one rounding step below the decimal value                     *)
(* (0.7999999999999999, 0.8999999999999999, 0.9999999999999999,            *)
(* 1.0999999999999999); a ratio is kept as its tenths and whether it is    *)
(* that step short.  An attempt of the model yields a sentence or nothing, *)
(* or raises.                                                              *)
(***************************************************************************)
TRIES_PER_RATIO == 10

FirstRatio == [tenths |-> 7, short |-> FALSE]
AddTenth(r) == [tenths |-> r.tenths + 1, short |-> TRUE]

\* (the loop stops before the ratio reaches 1.0)
WithinLimitStrict(r) == r.tenths < 10
\* while max_overlap_ratio <= 1.0
WithinLimit(r) == r.tenths < 10 \/ r.tenths = 10

\* KeyError and ParamError come from make_sentence_with_start
Raises == {"KeyError", "ParamError", "Exception"}
Outcomes(withStart) ==
    IF withStart THEN {"sentence", "none"} \cup Raises
    ELSE {"sentence", "none", "Exception"}

InitSentence ==
    /\ remote = GuildSmall
    /\ disk = EmptyStore
    /\ db = EmptyStore
    /\ pc = "bot_running"
    /\ started = FALSE
    /\ task = "waiting"
    /\ last_count = 0
    /\ update = FALSE
    /\ users = {}
    /\ ci = 0
    /\ pending = << >>
    /\ requests = << >>
    /\ error = FALSE
    /\ readyCalls = 0
    /\ runs = 1
    /\ start = EmptyStore
    /\ prev = [status |-> "none", update |-> FALSE, start |-> EmptyStore, end |-> EmptyStore]
    /\ stmts = << >>
    /\ prog = "bot"
    /\ config = FullConfig
    /\ exitmsg = NoMsg
    /\ opened = FALSE
    /\ CacheIdle
    /\ SentenceIdle
    /\ BotIdle

\* get_sentence is entered with or without a start word
GetSentence ==
    /\ pc = "bot_running"
    /\ gs.pc \in {"idle", "returned", "raised"}
    /\ \E withStart \in BOOLEAN :
         gs' = [pc |-> "trying", withStart |-> withStart, ratio |-> FirstRatio,
                tries |-> 0, attempts |-> << >>, relaxed |-> << >>, sentence |-> FALSE]
    /\ UNCHANGED <<archiverVars, mainVars, cacheVars, botVars>>

\* One pass of the for loop: make_fn(max_overlap_ratio=...)
Attempt ==
    /\ gs.pc = "trying"
    /\ \E out \in Outcomes(gs.withStart) :
         LET g1 == [gs EXCEPT !.attempts = Append(@, [ratio |-> gs.ratio, out |-> out]),
                              !.tries = @ + 1]
         IN gs' = IF out \in Raises THEN [g1 EXCEPT !.pc = "raised"]
                  ELSE IF out = "sentence"
                  THEN [g1 EXCEPT !.pc = "returned", !.sentence = TRUE]
                  ELSE IF g1.tries = TRIES_PER_RATIO
                  THEN [g1 EXCEPT !.pc = "sleeping", !.ratio = AddTenth(@), !.tries = 0]
                  ELSE g1
    /\ UNCHANGED <<archiverVars, mainVars, cacheVars, botVars>>

\* asyncio.sleep(0) returns and the while condition admits another round
Resume ==
    /\ gs.pc = "sleeping"
    /\ WithinLimit(gs.ratio)
    /\ gs' = [gs EXCEPT !.pc = "trying"]
    /\ UNCHANGED <<archiverVars, mainVars, cacheVars, botVars>>

\* The while loop ends without a sentence: make_fn(test_output=False, strict=False)
RelaxedAttempt ==
    /\ gs.pc = "sleeping"
    /\ ~WithinLimit(gs.ratio)
    /\ \E out \in Outcomes(gs.withStart) :
         LET g1 == [gs EXCEPT !.relaxed = Append(@, out)]
         IN gs' = IF out \in Raises THEN [g1 EXCEPT !.pc = "raised"]
                  ELSE [g1 EXCEPT !.pc = "returned", !.sentence = (out = "sentence")]
    /\ UNCHANGED <<archiverVars, mainVars, cacheVars, botVars>>

NextSentence ==
    \/ GetSentence
    \/ Attempt
    \/ Resume
    \/ RelaxedAttempt

SpecSentence == InitSentence /\ [][NextSentence]_vars

(***************************************************************************)
(* The bot's commands: MarkovCog.switch, set_name, talk, talkuwu, talk_impl *)
(*                                                                         *)
(* Commands are coroutines of one event loop: a command runs until it      *)
(* awaits, and other commands run while it is suspended.  A command whose  *)
(* last await is the send of its reply is finished with that send; sends   *)
(* succeed.  A model is kept with the author it was built for.  A command  *)
(* received in a direct message has no guild (ctx.guild is None).          *)
(***************************************************************************)
Slots == {1, 2}   \* two commands in flight
Members == {Alice, Bob}

MemberOf(id) == CHOOSE u \in Members : u.id = id
\* f"{member.name}#{member.discriminator}"
Attrib(u) == << u.name, "#", u.discriminator >>
Active(u, m) == [author |-> u.id, model |-> m]

Say(text) == [text |-> text, author |-> None, attrib |-> NoAttrib, uwu |-> FALSE]
Sentence(author, attrib, uwu) ==
    [text |-> "sentence", author |-> author, attrib |-> attrib, uwu |-> uwu]

IdleSlot == [kind |-> "none", pc |-> "idle"]

\* The slot a newly received command is kept in: the first one without a
\* command in flight
Free(s) ==
    /\ slots[s].pc \in {"idle", "done"}
    /\ \A t \in Slots : slots[t].pc \in {"idle", "done"} => s <= t

\* create_model up to its first await (as CallStart)
NewCall(a) ==
    LET c0 == [pc |-> "select_max", author |-> a, mtime |-> artifact[a].mtime,
               latest |-> NoTimestamp, n |-> 0, result |-> NoModel,
               maxReads |-> 0, corpusReads |-> 0,
               trained |-> FALSE, wrote |-> FALSE, removed |-> FALSE,
               pre |-> artifact[a], count0 |-> archive[a].count,
               follows |-> FALSE, touched |-> FALSE]
    IN IF artifact[a].state = "missing" THEN MissPath(c0) ELSE c0

\* create_model from the await it is suspended in to its next await or its
\* end (as MaxReturned, CorpusReturned, TrainingDone): the call and the
\* author's artifact afterwards
CallStep(c) ==
    LET a == c.author IN
    IF c.pc = "select_max"
    THEN LET c1 == [c EXCEPT !.latest = archive[a].latest, !.maxReads = @ + 1] IN
         IF archive[a].latest = NoTimestamp
         THEN [cm |-> [c1 EXCEPT !.pc = "raised"], file |-> artifact[a]]
         ELSE IF Stale(archive[a].latest, c.mtime)
         THEN [cm |-> MissPath([c1 EXCEPT !.removed = (artifact[a].state # "missing")]),
               file |-> NoFile]
         ELSE [cm |-> OpenArtifact(c1, artifact[a]), file |-> artifact[a]]
    ELSE IF c.pc = "select_corpus"
    THEN LET c1 == [c EXCEPT !.n = Min(archive[a].count, QUERY_LIMIT),
                             !.corpusReads = @ + 1] IN
         [cm |-> IF c1.n < MIN_MESSAGES THEN Returned(c1, NoModel)
                 ELSE [c1 EXCEPT !.pc = "training", !.trained = TRUE],
          file |-> artifact[a]]
    ELSE [cm |-> Returned([c EXCEPT !.wrote = TRUE], Model(c.n)),
          file |-> [state |-> "model", mtime |-> now, corpus |-> c.n]]

\* The command is over: its replies and the exception that escaped it are
\* kept, the locals of get_sentence are gone
Finished(sl, msgs, exc) ==
    [sl EXCEPT !.pc = "done", !.sent = @ \o msgs, !.raised = exc,
               !.ratio = FirstRatio, !.gen = NoActive, !.withStart = FALSE]

\* switch is received; it awaits inside create_model
SwitchStart ==
    /\ pc = "bot_running"
    /\ \E s \in Slots, u \in Members, g \in BOOLEAN :
         /\ Free(s)
         /\ slots' = [slots EXCEPT ![s] =
                [kind |-> "switch", pc |-> "create", guild |-> g, member |-> u,
                 cm |-> NewCall(u.id), withStart |-> FALSE,
                 ratio |-> FirstRatio, gen |-> NoActive, attempted |-> FALSE,
                 last |-> "none", hadModel |-> FALSE, sent |-> << >>, raised |-> "none"]]
    /\ UNCHANGED <<cog, cacheVars>>
    /\ UNCHANGED <<archiverVars, mainVars, sentenceVars>>

\* switch after create_model: the reply for no model; otherwise self._model
\* is replaced and set_name runs up to its await of me.edit
SwitchFinish(sl, c) ==
    IF c.pc = "raised"
    THEN [slot |-> Finished([sl EXCEPT !.cm = c], << >>, "TypeError"), cog |-> cog]
    ELSE IF c.result = NoModel
    THEN [slot |-> Finished([sl EXCEPT !.cm = c], << Say("Not enough data for user") >>, "none"),
          cog |-> cog]
    ELSE IF ~sl.guild
    THEN \* me = ctx.guild.me raises AttributeError
         [slot |-> Finished([sl EXCEPT !.cm = c], << >>, "AttributeError"),
          cog |-> [cog EXCEPT !.model = Active(sl.member, c.result)]]
    ELSE [slot |-> [sl EXCEPT !.cm = c, !.pc = "edit_nick"],
          cog |-> [model |-> Active(sl.member, c.result), attrib |-> Attrib(sl.member)]]

\* The query or the training a switch awaits inside create_model is done
SwitchStep ==
    /\ \E s \in Slots :
         /\ slots[s].pc = "create"
         /\ LET r == CallStep(slots[s].cm)
                f == IF r.cm.pc \in {"returned", "raised"}
                     THEN SwitchFinish(slots[s], r.cm)
                     ELSE [slot |-> [slots[s] EXCEPT !.cm = r.cm], cog |-> cog]
            IN /\ artifact' = [artifact EXCEPT ![slots[s].cm.author] = r.file]
               /\ slots' = [slots EXCEPT ![s] = f.slot]
               /\ cog' = f.cog
    /\ UNCHANGED <<now, archive, call>>
    /\ UNCHANGED <<archiverVars, mainVars, sentenceVars>>

\* me.edit(nick=...) returns or raises (Forbidden); switch then sends its reply
NickEdited ==
    /\ \E s \in Slots, ok \in BOOLEAN :
         /\ slots[s].pc = "edit_nick"
         /\ slots' = [slots EXCEPT ![s] =
                IF ok THEN Finished(@, << Say("Switched model to") >>, "none")
                ELSE Finished(@, << >>, "Forbidden")]
    /\ UNCHANGED <<cog, cacheVars>>
    /\ UNCHANGED <<archiverVars, mainVars, sentenceVars>>

\* (only the two exceptions named by talk_impl are caught)
CaughtNamedOnly(out) == out \in {"KeyError", "ParamError"}
\* talk_impl: except KeyError, except ParamError, except Exception
Caught(out) == out \in Raises

\* talk_impl after get_sentence returned or raised (uwu: the command is
\* talkuwu, which sends UWU(sentence) in place of the sentence)
Reply(gen, out, uwu) ==
    IF out = "sentence" THEN << Sentence(gen.author, cog.attrib, uwu) >>
    ELSE IF out = "none"
    THEN << Say("Gave up after too many failures (too much similarity).") >>
    ELSE IF ~Caught(out) THEN << >>
    ELSE IF out = "KeyError" THEN << Say("not found in data set.") >>
    ELSE IF out = "ParamError"
    THEN << Say("At most two words can be used for the start of a sentence.") >>
    ELSE << Say("Unknown error.") >>

\* One round of get_sentence (TRIES_PER_RATIO tries without suspension) with
\* result out, or its relaxed attempt, and what talk_impl does next
TalkRound(sl, out, isRelaxed, uwu) ==
    LET s1 == [sl EXCEPT !.last = out, !.attempted = TRUE]
    IN IF out = "none" /\ ~isRelaxed
       THEN [s1 EXCEPT !.pc = "sleeping", !.ratio = AddTenth(@)]
       ELSE Finished(s1, Reply(sl.gen, out, uwu),
                     IF out \in Raises /\ ~Caught(out) THEN out ELSE "none")

\* talk or talkuwu is received: talk_impl up to its reply or to the first
\* asyncio.sleep(0) of get_sentence
TalkStart ==
    /\ pc = "bot_running"
    /\ \E s \in Slots, ws \in BOOLEAN, uw \in BOOLEAN :
         /\ Free(s)
         /\ LET sl == [kind |-> "talk", pc |-> "start", guild |-> TRUE, member |-> Alice,
                       cm |-> NoCall, withStart |-> ws,
                       ratio |-> FirstRatio, gen |-> cog.model, attempted |-> FALSE,
                       last |-> "none", hadModel |-> (cog.model # NoActive),
                       sent |-> << >>, raised |-> "none"]
            IN IF cog.model = NoActive
               THEN /\ ~uw
                    /\ slots' = [slots EXCEPT ![s] =
                                   Finished(sl, << Say("No active model.") >>, "none")]
               ELSE \E out \in Outcomes(ws) :
                      /\ (out # "sentence") => ~uw
                      /\ slots' = [slots EXCEPT ![s] = TalkRound(sl, out, FALSE, uw)]
    /\ UNCHANGED <<cog, cacheVars>>
    /\ UNCHANGED <<archiverVars, mainVars, sentenceVars>>

\* asyncio.sleep(0) returns: the next round, or the relaxed attempt once the
\* ratio has passed 1.0
TalkResume ==
    /\ \E s \in Slots :
         /\ slots[s].pc = "sleeping"
         /\ \E out \in Outcomes(slots[s].withStart), uw \in BOOLEAN :
              /\ (out # "sentence") => ~uw
              /\ slots' = [slots EXCEPT ![s] =
                             TalkRound(@, out, ~WithinLimit(slots[s].ratio), uw)]
    /\ UNCHANGED <<cog, cacheVars>>
    /\ UNCHANGED <<archiverVars, mainVars, sentenceVars>>

BotArchives ==
    { [count |-> 0, latest |-> NoTimestamp],
      [count |-> MIN_MESSAGES - 1, latest |-> 1],
      [count |-> MIN_MESSAGES, latest |-> 1] }
BotArtifacts ==
    { NoFile,
      [state |-> "model", mtime |-> 0, corpus |-> MIN_MESSAGES],
      [state |-> "model", mtime |-> 1, corpus |-> MIN_MESSAGES] }

InitBot ==
    /\ remote = GuildSmall
    /\ disk = EmptyStore
    /\ db = EmptyStore
    /\ pc = "bot_running"
    /\ started = FALSE
    /\ task = "waiting"
    /\ last_count = 0
    /\ update = FALSE
    /\ users = {}
    /\ ci = 0
    /\ pending = << >>
    /\ requests = << >>
    /\ error = FALSE
    /\ readyCalls = 0
    /\ runs = 1
    /\ start = EmptyStore
    /\ prev = [status |-> "none", update |-> FALSE, start |-> EmptyStore, end |-> EmptyStore]
    /\ stmts = << >>
    /\ prog = "bot"
    /\ config = FullConfig
    /\ exitmsg = NoMsg
    /\ opened = FALSE
    /\ now = 1
    /\ archive \in { [a \in {Alice.id, Bob.id} |->
                          IF a = Alice.id THEN x
                          ELSE [count |-> MIN_MESSAGES, latest |-> 1]] : x \in BotArchives }
    /\ artifact \in { [a \in {Alice.id, Bob.id} |-> IF a = Alice.id THEN x ELSE y] :
                          x \in BotArtifacts, y \in {NoFile} }
    /\ call = NoCall
    /\ SentenceIdle
    /\ cog = [model |-> NoActive, attrib |-> NoAttrib]
    /\ slots = [s \in Slots |-> IdleSlot]

NextBot ==
    \/ SwitchStart
    \/ SwitchStep
    \/ NickEdited
    \/ TalkStart
    \/ TalkResume

SpecBot == InitBot /\ [][NextBot]_vars

(***************************************************************************)
(* A guild whose users change their names while and between archiver runs  *)
(***************************************************************************)
NewName(u) == IF u.id = Alice.id THEN "alicia" ELSE "bobby"

Renamed(u, uid) ==
    IF u.id = uid THEN [u EXCEPT !.name = NewName(u), !.display_name = NewName(u)] ELSE u

\* What get_all_members() and message.author report once user uid is renamed
RenameUser(g, uid) ==
    [channels |-> g.channels,
     members  |-> { Renamed(u, uid) : u \in g.members },
     messages |-> { [m EXCEPT !.author = Renamed(@, uid),
                              !.mentions = { Renamed(u, uid) : u \in @ }] : m \in g.messages }]

\* A user changes name on the platform (at most once per user)
Rename ==
    /\ \E uid \in {Alice.id, Bob.id} :
         /\ RenameUser(remote, uid) # remote
         /\ remote' = RenameUser(remote, uid)
    /\ UNCHANGED <<disk, db, pc, started, task, last_count, update, users, ci,
                   pending, requests, error, readyCalls, runs, start, prev, stmts>>
    /\ UNCHANGED <<mainVars, cacheVars, sentenceVars, botVars>>

NextRename ==
    \/ Next
    \/ Rename

SpecRename == Init /\ [][NextRename]_vars

(***************************************************************************)
(* A channel that keeps receiving messages while and between archiver runs *)
(***************************************************************************)
MaxPostId == 5

TopId(g) == CHOOSE i \in { m.id : m \in g.messages } : \A m \in g.messages : m.id <= i

\* The history request in flight pages forward (after cursor) through channel
\* c and has missed none of its messages so far
PagingForward(c) ==
    /\ pc = "history"
    /\ requests # << >>
    /\ requests[Len(requests)].channel = c
    /\ requests[Len(requests)].after # None
    /\ \A m \in remote.messages :
          (m.channel = c /\ m.id > requests[Len(requests)].after)
              => \/ m.id \in MessageIds(db)
                 \/ \E i \in 1..Len(pending) : pending[i].id = m.id

\* A member posts in a channel: the new message has the highest id.  A
\* request that pages forward through the channel reaches it when its last
\* page has not been fetched yet; a request that pages backward never does.
Post ==
    /\ pc \in {"constructed", "connected", "history", "closed", "killed"}
    /\ TopId(remote) < MaxPostId
    /\ \E k \in 1..Len(remote.channels) :
         LET c == remote.channels[k].id
             m == Msg(TopId(remote) + 1, Alice, c, {})
         IN /\ remote' = [remote EXCEPT !.messages = @ \cup {m}]
            /\ \/ pending' = pending
               \/ PagingForward(c) /\ pending' = Append(pending, m)
    /\ UNCHANGED <<disk, db, pc, started, task, last_count, update, users, ci,
                   requests, error, readyCalls, runs, start, prev, stmts>>
    /\ UNCHANGED <<mainVars, cacheVars, sentenceVars, botVars>>

InitGrow == Init /\ remote = GuildSmall

NextGrow ==
    \/ Next
    \/ Post

SpecGrow == InitGrow /\ [][NextGrow]_vars

TypeOK ==
    /\ pc \in {"main", "exited", "constructed", "connected", "history", "closed", "killed",
              "bot_constructed", "bot_running"}
    /\ task \in {"waiting", "running", "cancelled"}
    /\ started \in BOOLEAN /\ update \in BOOLEAN /\ error \in BOOLEAN
    /\ runs \in 1..MaxRuns /\ readyCalls \in 0..MaxReady

(***************************************************************************)
(* Properties of the archiver                                              *)
(***************************************************************************)
AuthorsResolve(d) == \A r \in d.messages : \E u \in d.users : u[1] = r[3]

ReyieldStep ==
    /\ pc = "history" /\ pc' = "history"
    /\ pending # << >> /\ pending' = Tail(pending)
    /\ Head(pending).id \in MessageIds(db)

\* C2: when a scan yields a message that is already stored, the inserts made
\* for it add no row to any table and change no row (ignore-on-conflict).
InsertsIgnoreOnConflict == [][ReyieldStep => db' = db]_vars

UpdateFetchesOnlyNewer ==
    update => \A i \in 1..Len(requests) :
                \A k \in 1..Len(requests[i].result) :
                  \A sid \in requests[i].stored : requests[i].result[k] > sid

\* Ids an uninterrupted run in the given mode stores on top of store s, whatever
\* row the watermark query reports: for each scanned channel, all remote
\* messages beyond every stored one (all of them when none is stored).
ScannedChannels ==
    { remote.channels[i].id : i \in { k \in 1..Len(remote.channels) :
        /\ remote.channels[k].type = "text"
        /\ remote.channels[k].read_messages
        /\ remote.channels[k].read_message_history } }

UninterruptedIds(s, upd) ==
    MessageIds(s) \cup
    { m.id : m \in { x \in remote.messages :
        /\ x.channel \in ScannedChannels
        /\ \A r \in ChannelRows(s, x.channel) :
             IF upd THEN x.id > r[1] ELSE x.id < r[1] } }

\* C5: when a run was aborted (killed, or ended by an exception) and the same
\* mode is then run to normal completion, the committed store holds every
\* message the uninterrupted run would have stored.
ForwardProgressAfterAbort ==
    (pc = "closed" /\ ~error /\ prev.status \in {"killed", "failed"} /\ prev.update = update)
        => UninterruptedIds(prev.start, update) \subseteq MessageIds(disk)

\* C6: in every committed state every messages row's author has a users row,
\* and a run on an empty store over one channel with three messages of two
\* users, one of them not a member, ends with 2 users rows, 1 channels row and
\* 3 messages rows without error.
ReferentialIntegrityAtCommit ==
    /\ AuthorsResolve(disk)
    /\ (remote = GuildSmall /\ start = EmptyStore /\ pc = "closed" /\ ~error)
         => /\ Cardinality(disk.users) = 2
            /\ Cardinality(disk.channels) = 1
            /\ Cardinality(disk.messages) = 3

\* C6 witness: the commit task has committed, in the middle of a scan, a
\* message of an author who is not a member.
SynthesizedAuthorCommittedMidScan ==
    /\ runs = 1 /\ pc = "history" /\ pending # << >>
    /\ \E r \in disk.messages : r[3] = Bob.id
    /\ UserTuple(Bob) \in disk.users

\* C7: whenever on_ready has left ingestion (normally or through an exception)
\* the commit task is cancelled, the client is disconnected and every row
\* inserted so far is committed.
ShutdownFlushes ==
    pc = "closed" => (task = "cancelled" /\ disk = db)

\* C8: an on_ready invocation after the first one of the process changes
\* neither the store nor the connection, nor the progress of the ingestion.
OnceOnlyStartup ==
    [][(readyCalls >= 1 /\ readyCalls' = readyCalls + 1)
          => UNCHANGED <<db, disk, pc, task, started, users, ci, pending, requests>>]_vars

\* C8 witness: a second on_ready arrived while the first is suspended in a scan
\* with uncommitted inserts.
SecondReadyDuringIngestion ==
    readyCalls = 2 /\ pc = "history" /\ pending # << >> /\ db # disk

DeniedChannels ==
    { remote.channels[i].id : i \in { k \in 1..Len(remote.channels) :
        ~(remote.channels[k].read_messages /\ remote.channels[k].read_message_history) } }

\* C9: for a channel without read-messages or read-message-history capability
\* no watermark query or history request is issued and no messages row of it is
\* stored, and a run that completes has scanned every other text channel.
DeniedChannelsSkipped ==
    /\ \A c \in DeniedChannels :
         /\ \A i \in 1..Len(requests) : requests[i].channel # c
         /\ ChannelRows(db, c) = {}
         /\ ChannelRows(disk, c) = {}
    /\ (pc = "closed" /\ ~error)
         => \A c \in ScannedChannels : \E i \in 1..Len(requests) : requests[i].channel = c

\* C9 witness: a run completed in which an archivable channel listed after a
\* denied one was scanned and stored.
ScannedPastDeniedChannel ==
    /\ remote = GuildMixed /\ pc = "closed" /\ ~error
    /\ MessageIds(disk) = {2, 3}
    /\ Len(requests) = 1

\* C10 as stated: after a run the channels table holds exactly the text
\* channels the credential can read and read the history of.
ChannelsTableIsArchivableChannels ==
    pc = "closed" => { r[1] : r \in disk.channels } = ScannedChannels

\* C10 amended: after a run the channels table holds exactly the text channels
\* visible to the credential, whatever its permissions on them.
ChannelsTableIsTextChannels ==
    pc = "closed" =>
        { r[1] : r \in disk.channels } =
        { remote.channels[i].id : i \in { k \in 1..Len(remote.channels) :
                                             remote.channels[k].type = "text" } }

\* C10 witness: a text channel without history access has a channels row
DeniedTextChannelHasRow ==
    pc = "closed" /\ remote = GuildMixed /\ \E r \in disk.channels : r[1] = 20

RowsKept(old, new) ==
    \A r \in old : r \in new /\ \A q \in new : q[1] = r[1] => q = r

TablesKept(d, e) ==
    /\ RowsKept(d.users, e.users)
    /\ RowsKept(d.channels, e.channels)
    /\ RowsKept(d.messages, e.messages)

\* C11: over any sequence of runs in either mode, with users changing their
\* names, every committed users, channels and messages row stays in the store
\* exactly as first written and no second row with its key appears; the same
\* holds for the rows written through the open connection of a live process.
AppendOnlyFirstWriteWins ==
    [][/\ TablesKept(disk, disk')
       /\ (pc \in {"connected", "history"} /\ pc' # "killed") => TablesKept(db, db')]_vars

\* C11 witness: a process that started with Alice's users row enumerated the
\* members and fetched messages after Alice was renamed, and the committed
\* row still is the one first written.
RenamedMemberObservedRowKept ==
    /\ UserTuple(Alice) \in start.users
    /\ UserTuple(Alice) \in disk.users
    /\ \E i \in 1..Len(pending) : pending[i].author.name = "alicia"

Cursor(r) == IF update THEN r.after ELSE r.before

\* Channels message_tuple_generator has reached so far in this process
ScannedSoFar ==
    { remote.channels[k].id : k \in { j \in 1..Len(remote.channels) :
        /\ j <= ci
        /\ remote.channels[j].type = "text"
        /\ remote.channels[j].read_messages
        /\ remote.channels[j].read_message_history } }

\* C18: every scanned channel gets exactly one history request; the request
\* carries no before cursor in update mode and no after cursor in backfill
\* mode; its cursor is present exactly when the channel had a stored message,
\* and is then the id of a stored message of the channel with the maximum
\* (update) or minimum (backfill) timestamp.
CursorSelection ==
    /\ { requests[i].channel : i \in 1..Len(requests) } = ScannedSoFar
    /\ \A i, j \in 1..Len(requests) : i # j => requests[i].channel # requests[j].channel
    /\ \A i \in 1..Len(requests) :
         LET r == requests[i] IN
         /\ (update => r.before = None) /\ (~update => r.after = None)
         /\ (Cursor(r) # None) <=> (r.stored # {})
         /\ Cursor(r) # None =>
              /\ Cursor(r) \in r.stored
              /\ \A sid \in r.stored :
                   IF update THEN created_at(sid) <= created_at(Cursor(r))
                   ELSE created_at(sid) >= created_at(Cursor(r))

\* C18 witness: an update request whose cursor was chosen among stored
\* messages of different timestamps.
CursorAmongSeveralTimestamps ==
    \E i \in 1..Len(requests) :
        /\ requests[i].after # None
        /\ \E sid \in requests[i].stored : created_at(sid) < created_at(requests[i].after)

Ascending(seq) == \A j, k \in 1..Len(seq) : j < k => seq[j] < seq[k]

\* C19: in update mode the messages of every request, also of one without
\* after cursor (no stored message), are received oldest first.
UpdateReceivesOldestFirst ==
    update => \A i \in 1..Len(requests) : Ascending(requests[i].result)

AuthorOf(mid) == (CHOOSE m \in remote.messages : m.id = mid).author.id
MemberIds == { u.id : u \in remote.members }
IsMessageStmt(e) == e[1] = "messages"
IsUserStmt(e) == e[1] = "users"

RECURSIVE Results(_)
Results(n) == IF n = 0 THEN << >> ELSE Results(n - 1) \o requests[n].result

LoggedMessageIds ==
    LET ms == SelectSeq(stmts, IsMessageStmt) IN [ k \in 1..Len(ms) |-> ms[k][2] ]

\* C20: a users insert is issued for a yielded message exactly when its author
\* is neither an enumerated member nor an author already inserted in this run;
\* it directly precedes the message's insert; the author is then in the known
\* set; no author gets two such inserts in a run; and messages are inserted in
\* the order the requests delivered them.
AuthorBackfillOrdering ==
    /\ \A k \in 1..Len(stmts) :
         IsMessageStmt(stmts[k]) =>
           LET a == AuthorOf(stmts[k][2]) IN
           (k > 1 /\ stmts[k - 1] = << "users", a >>)
             <=> (a \notin MemberIds /\ \A j \in 1..(k - 2) : stmts[j] # << "users", a >>)
    /\ \A k \in 1..Len(stmts) :
         IsUserStmt(stmts[k]) =>
           /\ k < Len(stmts) /\ IsMessageStmt(stmts[k + 1])
           /\ AuthorOf(stmts[k + 1][2]) = stmts[k][2]
           /\ stmts[k][2] \in users
    /\ \A j, k \in 1..Len(stmts) :
         (j < k /\ IsUserStmt(stmts[j]) /\ IsUserStmt(stmts[k])) => stmts[j] # stmts[k]
    /\ started => users = MemberIds \cup { stmts[k][2] : k \in { j \in 1..Len(stmts) : IsUserStmt(stmts[j]) } }
    /\ LoggedMessageIds = SubSeq(Results(Len(requests)), 1, Len(LoggedMessageIds))

\* C20 witness: two messages of an author who is not a member were inserted in
\* one run with a single users insert, placed before the first of them.
OneInsertForTwoMessagesOfLeftAuthor ==
    /\ remote = GuildLeft
    /\ stmts = << << "users", Bob.id >>, << "messages", 7 >>, << "messages", 6 >> >>

ConfigLacksToken ==
    \/ "MAIN" \notin config.sections
    \/ \A e \in config.entries : ~(e[1] = "MAIN" /\ e[2] = "Token")

\* C17: with a configuration lacking section MAIN or key Token, the archiver
\* and the bot never get past main(): no client is constructed, nothing
\* connects, the archiver's store is not opened, and the exit message names
\* the missing section, or the missing key and its section.
ConfigErrorIsFatal ==
    ConfigLacksToken =>
        /\ pc \in {"main", "exited"}
        /\ ~opened
        /\ disk = EmptyStore
        /\ pc = "exited" =>
             exitmsg = IF "MAIN" \notin config.sections
                       THEN << "Missing config section", "MAIN" >>
                       ELSE << "Missing config key", "Token", "MAIN" >>

\* C17 witness: the archiver exited on a [MAIN] section without Token, with the
\* store unopened.
ArchiverExitedOnMissingKey ==
    /\ prog = "archiver" /\ pc = "exited" /\ ~opened
    /\ exitmsg = << "Missing config key", "Token", "MAIN" >>

StoredIds(d, c) == { r[1] : r \in ChannelRows(d, c) }
Contiguous(d) ==
    \A k \in 1..Len(remote.channels) :
        LET c == remote.channels[k].id IN
        \A m \in remote.messages :
            ( /\ m.channel = c
              /\ \E lo \in StoredIds(d, c) : lo < m.id
              /\ \E hi \in StoredIds(d, c) : m.id < hi ) => m.id \in StoredIds(d, c)

\* C23: whatever runs were made, in whatever modes, completed or aborted,
\* while the channels kept receiving messages, no remote message of a channel
\* is missing from the store (committed or pending) while an older and a
\* newer message of that channel are stored.
GaplessCoverage == Contiguous(disk) /\ Contiguous(db)

\* an aborted update run of a later process left the middle of the history:
\* older and newer remote messages are missing
MiddleOfHistoryStored ==
    /\ pc = "killed"
    /\ update
    /\ runs > 1
    /\ \E k \in 1..Len(remote.channels) :
         LET c == remote.channels[k].id IN
         /\ Cardinality(StoredIds(disk, c)) >= 2
         /\ \E m \in remote.messages :
              m.channel = c /\ \A i \in StoredIds(disk, c) : m.id < i
         /\ \E m \in remote.messages :
              m.channel = c /\ \A i \in StoredIds(disk, c) : m.id > i

(***************************************************************************)
(* Model cache claims (SpecCache)                                          *)
(***************************************************************************)
Done == call.pc \in {"returned", "raised"}
HadFile == call.pre.state # "missing"
SawLatest == call.maxReads = 1 /\ call.latest # NoTimestamp
FreshSeen == HadFile /\ SawLatest /\ call.mtime >= call.latest
StaleSeen == HadFile /\ SawLatest /\ call.latest > call.mtime
Untouched == ~call.trained /\ ~call.wrote /\ ~call.removed
Rebuilt ==
    /\ call.pc = "returned"
    /\ call.trained
    /\ call.wrote
    /\ call.result = Model(call.n)
    /\ call.n >= MIN_MESSAGES
NoModelResult ==
    /\ call.pc = "returned"
    /\ call.result = NoModel
    /\ ~call.trained
    /\ ~call.wrote
FreshNow(a) ==
    /\ artifact[a].state = "model"
    /\ artifact[a].mtime >= archive[a].latest

\* C12: a finished create_model call for an author with fewer than 25
\* archived messages returned None without training and without writing,
\* whatever the artifact was; a finished call for an author with at least 25
\* messages and no usable artifact (missing, malformed or stale) trained,
\* wrote the artifact and returned the model.
InsufficientDataBoundary ==
    Done =>
        /\ (~call.touched /\ archive[call.author].count < MIN_MESSAGES) => NoModelResult
        /\ ( /\ call.count0 >= MIN_MESSAGES
             /\ (call.pre.state \in {"missing", "malformed"} \/ StaleSeen) ) => Rebuilt

\* C13 (as stated): a finished call that found an artifact not older than the
\* author's latest message returned the deserialized artifact without any
\* read of the messages table, without training, deleting or rewriting.
CacheHitReadsNothing ==
    (Done /\ FreshSeen) =>
        /\ call.pc = "returned"
        /\ call.result = Model(call.pre.corpus)
        /\ call.maxReads + call.corpusReads = 0
        /\ Untouched
        /\ artifact[call.author] = call.pre

\* C13 (amended): a finished call that found a deserializable artifact not
\* older than the author's latest message returned the deserialized artifact
\* after exactly one read of the messages table, the max(timestamp) query of
\* the freshness check, without reading the author's message contents,
\* without training, and without deleting or rewriting the artifact.
CacheHit ==
    (Done /\ FreshSeen /\ call.pre.state = "model") =>
        /\ call.pc = "returned"
        /\ call.result = Model(call.pre.corpus)
        /\ call.maxReads = 1
        /\ call.corpusReads = 0
        /\ Untouched
        /\ artifact[call.author] = call.pre

\* a hit on an artifact exactly as old as the latest message
HitAtEqualTimestamps ==
    /\ call.pc = "returned"
    /\ call.pre.state = "model"
    /\ SawLatest
    /\ call.mtime = call.latest
    /\ call.result = Model(call.pre.corpus)

\* C14 (as stated): a finished call that found an artifact older than the
\* author's latest message discarded it, rebuilt the model and persisted a
\* new artifact; until the store changes that artifact passes the freshness
\* check, and a call that immediately follows is a cache hit.
CacheInvalidation ==
    /\ (Done /\ StaleSeen) =>
          /\ call.removed
          /\ Rebuilt
          /\ ~call.touched => FreshNow(call.author)
    /\ (Done /\ call.follows) =>
          /\ call.pc = "returned"
          /\ call.result = Model(call.pre.corpus)
          /\ call.corpusReads = 0
          /\ Untouched

\* C14 (amended): a finished call for an author with at least 25 messages
\* that found an artifact older than the author's latest message discarded
\* it, rebuilt the model and persisted a new artifact; until the store
\* changes that artifact passes the freshness check, and a call that
\* immediately follows such a rebuild is a cache hit.
CacheInvalidationWithCorpus ==
    /\ (Done /\ StaleSeen /\ call.count0 >= MIN_MESSAGES) =>
          /\ call.removed
          /\ Rebuilt
          /\ ~call.touched => FreshNow(call.author)
    /\ (Done /\ call.follows) =>
          /\ call.pc = "returned"
          /\ call.result = Model(call.pre.corpus)
          /\ call.corpusReads = 0
          /\ Untouched

\* a hit by the call that immediately follows the rebuild of a stale artifact
HitRightAfterRebuild ==
    /\ call.pc = "returned"
    /\ call.follows
    /\ call.pre.state = "model"
    /\ call.result = Model(call.pre.corpus)
    /\ call.maxReads = 1

\* C15: a finished call that found no artifact, or one that cannot be
\* deserialized, raised nothing, read the author's messages, and either
\* rebuilt and persisted the model (at least 25 messages) or returned None,
\* whatever the store held.
BrokenArtifactIsCacheMiss ==
    (Done /\ call.pre.state \in {"missing", "malformed"}) =>
        /\ call.pc = "returned"
        /\ call.corpusReads = 1
        /\ IF call.n >= MIN_MESSAGES THEN Rebuilt ELSE NoModelResult

(***************************************************************************)
(* Sentence generation claim (SpecSentence)                                *)
(***************************************************************************)
NominalRatios == {7, 8, 9, 10}
AttemptsAt(t) == { i \in 1..Len(gs.attempts) : gs.attempts[i].ratio.tenths = t }
AllTestedFailed ==
    /\ Len(gs.attempts) = TRIES_PER_RATIO * Cardinality(NominalRatios)
    /\ \A i \in 1..Len(gs.attempts) : gs.attempts[i].out = "none"

\* C16: a get_sentence call makes at most 10 tested attempts at each of the
\* ratios 0.7, 0.8, 0.9, 1.0 in increasing order (at most 40 in total), makes
\* no attempt after one that yielded a sentence, makes exactly one relaxed
\* attempt if and only if all 40 tested attempts yielded nothing, and
\* returns a sentence exactly when some attempt produced one.
BoundedRetryBudget ==
    gs.pc # "idle" =>
        /\ Len(gs.attempts) <= TRIES_PER_RATIO * Cardinality(NominalRatios)
        /\ \A i \in 1..Len(gs.attempts) :
              /\ gs.attempts[i].ratio.tenths \in NominalRatios
              /\ Cardinality(AttemptsAt(gs.attempts[i].ratio.tenths)) <= TRIES_PER_RATIO
              /\ i < Len(gs.attempts) =>
                    /\ gs.attempts[i].out = "none"
                    /\ gs.attempts[i].ratio.tenths <= gs.attempts[i + 1].ratio.tenths
        /\ Len(gs.relaxed) <= 1
        /\ Len(gs.relaxed) = 1 => AllTestedFailed
        /\ gs.pc \in {"returned", "raised"} =>
              /\ gs.attempts # << >>
              /\ gs.attempts[Len(gs.attempts)].out # "none" \/ Len(gs.relaxed) = 1
        /\ gs.pc = "returned" =>
              gs.sentence <=> \/ gs.attempts[Len(gs.attempts)].out = "sentence"
                              \/ gs.relaxed = << "sentence" >>

\* all 40 tested attempts failed and the relaxed attempt produced the sentence
RelaxedAttemptAnswered ==
    /\ gs.pc = "returned"
    /\ AllTestedFailed
    /\ gs.relaxed = << "sentence" >>
    /\ gs.sentence

(***************************************************************************)
(* Claims about the bot's commands (SpecBot)                                *)
(***************************************************************************)
TalkDone(s) == slots[s].kind = "talk" /\ slots[s].pc = "done"
SwitchCalled(s) == slots[s].kind = "switch" /\ slots[s].cm.pc \in {"returned", "raised"}

ConcurrentCreateModel ==
    \A s \in Slots : SwitchCalled(s) =>
        /\ slots[s].cm.pc = "returned"
        /\ \/ slots[s].cm.result # NoModel
           \/ archive[slots[s].cm.author].count < MIN_MESSAGES
        /\ ( /\ slots[s].cm.result # NoModel
             /\ \A t \in Slots : ~( /\ slots[t].pc = "create"
                                     /\ slots[t].cm.author = slots[s].cm.author ) )
              => artifact[slots[s].cm.author].state = "model"

\* C24: the attribution sent with a generated sentence names the author
\* whose model generated the sentence.
AttributionNamesGenerator ==
    \A s \in Slots : TalkDone(s) =>
        \A i \in 1..Len(slots[s].sent) :
            slots[s].sent[i].text = "sentence"
                => slots[s].sent[i].attrib = Attrib(MemberOf(slots[s].sent[i].author))

CogConsistent ==
    \/ cog.model = NoActive /\ cog.attrib = NoAttrib
    \/ cog.model # NoActive /\ cog.attrib = Attrib(MemberOf(cog.model.author))

\* A step in which the create_model call of a switch ends with the no-model
\* result or with an exception
SwitchWithoutModel ==
    \E s \in Slots :
        /\ slots[s].pc = "create"
        /\ slots'[s].pc = "done"
        /\ \/ slots'[s].cm.pc = "raised"
           \/ slots'[s].cm.result = NoModel

\* C25: a switch whose create_model returns the no-model result or raises
\* leaves self._model and self._model_attrib unchanged, and in every state
\* the active model and the stored attribution refer to the same author.
ActiveModelConsistency ==
    /\ [](CogConsistent)
    /\ [][SwitchWithoutModel => cog' = cog]_vars

====
